---- MODULE Spec2Model ----
(***************************************************************************)
(* Rooting protocol of the rune runtime (src/core/arena/root_struct.rs):   *)
(* the stack-discipline guard RootStruct and the root-set it pushes to,    *)
(* the branded RootOwner / Root pair, and the rooted representation Rt<T>  *)
(* with its zero-copy projections.                                         *)
(***************************************************************************)
EXTENDS Integers, Sequences, FiniteSets, TLC

\* ------------------------------------------------------------------------
\* Bounds
\* ------------------------------------------------------------------------
NumGuards == 3
NumRoots == 2
NumScopes == 2
NumCells == 2
NumObjs == 3
MaxLen == 3
MaxOther == 2
NumKeys == 3
MaxArgs == 2
NumFuncs == 2
MaxGets == 2

Guards == 1..NumGuards
Addrs == 1..NumRoots

\* Panic messages of the two assertions of RootStruct.  A failed assertion is
\* fatal: once one has fired no further operation runs.
NoPanic == "none"
MsgNotSet == "RootStruct was dropped while still not set"
MsgSetOnce == "RootStruct should only be set once"

VARIABLES
    guards,     \* RootStruct instances: lifecycle, the `set` flag, and the
                \* address of the root the guard was installed on
    root_set,   \* RootSet.root_structs: Vec<*const dyn Trace>
    fatal,      \* panic message of the failed assertion, NoPanic if none
    installed,  \* the guards installed and not yet dropped, in install order
    in_order,   \* every teardown so far retired the most recent live install
    last,       \* the most recent call
    scopes,     \* per session brand 'id: its Guard<'id>, then its RootOwner<'id>
    cells,      \* Root<'id, RootObj> cells: brand and the RawObj held by the Rt
    views,      \* outstanding &Rt / &mut Rt obtained through an owner
    direct,     \* per cell, a plain GcObj variable given the same assignments
    ret2,       \* per owner, the pair borrow_mut2 returned, while both views live
    owners,     \* per session brand, the number of RootOwner values made for it
    vec,        \* an Rt<Vec<RootObj>>
    pushed,     \* a plain Vec<GcObj> given the same pushes as vec
    mem,        \* the storage of an Rt<Option<(RootObj, RootObj)>>, word by word
    plain,      \* a plain Option<(GcObj, GcObj)> given the same assignments
    at_install, \* per root-set entry, what its root held when it was installed
    vec_b,      \* a second Rt<Vec<RootObj>>, the argument of append
    plain_b,    \* a plain Vec<GcObj> given the same operations as vec_b
    map,        \* an Rt<HashMap<K, RootObj>>
    plain_map,  \* a plain HashMap<K, GcObj> given the same operations as map
    number,     \* the Option<Number> / Number argument of sub and div
    numbers,    \* the &[Number] argument of add, sub, mul and div
    result,     \* what the arithmetic call returned
    accs,       \* the accumulators the call's fold went through
    sym,        \* an InnerSymbol: its name and its function cell
    fn_heap,    \* the function objects the arena holds, by address
    got,        \* what each get_func call returned, oldest first
    last_set    \* the function given to the latest set_func call

guardVars == <<guards, root_set, fatal, installed, in_order>>
ownerVars == <<scopes, cells, views, direct, ret2, owners>>
rtVars == <<vec, pushed, mem, plain>>
traceVars == <<at_install>>
collVars == <<vec_b, plain_b, map, plain_map>>
arithVars == <<number, numbers, result, accs>>
symVars == <<sym, fn_heap, got, last_set>>
vars == <<guards, root_set, fatal, installed, in_order, last,
          scopes, cells, views, direct, ret2, owners,
          vec, pushed, mem, plain, at_install,
          vec_b, plain_b, map, plain_map,
          number, numbers, result, accs,
          sym, fn_heap, got, last_set>>

\* What the operations of each component leave alone.
nonGuardVars == <<ownerVars, rtVars, traceVars, collVars, arithVars, symVars>>
nonOwnerVars == <<guardVars, rtVars, traceVars, collVars, arithVars, symVars>>
nonRtVars == <<guardVars, ownerVars, traceVars, collVars, arithVars, symVars>>
nonCollVars == <<guardVars, ownerVars, traceVars, arithVars, symVars>>
nonArithVars == <<guardVars, ownerVars, rtVars, traceVars, collVars, symVars>>
nonSymVars == <<guardVars, ownerVars, rtVars, traceVars, collVars, arithVars>>

\* ------------------------------------------------------------------------
\* RootStruct and the root-set
\* ------------------------------------------------------------------------

\* Vec::push
push(s, e) == Append(s, e)

\* Vec::pop: removes the last element, a no-op on an empty vector
pop(s) == IF s = <<>> THEN s ELSE SubSeq(s, 1, Len(s) - 1)

Event(op, g, r) == [op |-> op, g |-> g, root |-> r]
NoEvent == Event("none", 0, 0)

Without(s, g) == SelectSeq(s, LAMBDA x : x # g)

\* RootStruct::new: a fresh guard, not yet set.  Guards are numbered in
\* creation order.
RootStruct_new(g) ==
    /\ fatal = NoPanic
    /\ guards[g].st = "none"
    /\ \A h \in Guards : h < g => guards[h].st # "none"
    /\ guards' = [guards EXCEPT ![g] = [st |-> "live", set |-> FALSE, root |-> 0]]
    /\ last' = Event("new", g, 0)
    /\ UNCHANGED <<root_set, fatal, installed, in_order>>
    /\ UNCHANGED nonGuardVars

\* The body shared by RootStruct::set and RootStruct::set_rt: assert the
\* guard is not set, take the address of the root, set the flag, push.
Install(op, g, r) ==
    /\ fatal = NoPanic
    /\ guards[g].st = "live"
    /\ last' = Event(op, g, r)
    /\ UNCHANGED nonGuardVars
    /\ IF guards[g].set
       THEN /\ fatal' = MsgSetOnce
            /\ UNCHANGED <<guards, root_set, installed, in_order>>
       ELSE /\ guards' = [guards EXCEPT ![g].set = TRUE, ![g].root = r]
            /\ root_set' = push(root_set, r)
            /\ installed' = Append(installed, g)
            /\ UNCHANGED <<fatal, in_order>>

\* A plausible slip: the "only set once" assertion is missing.
set_unchecked(g, r) ==
    /\ fatal = NoPanic
    /\ guards[g].st = "live"
    /\ last' = Event("set", g, r)
    /\ UNCHANGED nonGuardVars
    /\ guards' = [guards EXCEPT ![g].set = TRUE, ![g].root = r]
    /\ root_set' = push(root_set, r)
    /\ installed' = IF guards[g].set THEN installed ELSE Append(installed, g)
    /\ UNCHANGED <<fatal, in_order>>

\* RootStruct::set(&mut self, root: &mut Root<'id, T>)
set(g, r) == Install("set", g, r)

\* RootStruct::set_rt(&mut self, root: &mut Rt<T>)
set_rt(g, r) == Install("set_rt", g, r)

\* What a teardown of g does to the record of live installs.
Retire(g) ==
    /\ last' = Event("drop", g, 0)
    /\ UNCHANGED nonGuardVars
    /\ guards' = [guards EXCEPT ![g].st = "dropped"]
    /\ installed' = Without(installed, g)
    /\ in_order' = (in_order /\ (guards[g].set => installed[Len(installed)] = g))

\* A plausible slip: the pop comes before the assertion.
drop_pop_first(g) ==
    /\ fatal = NoPanic
    /\ guards[g].st = "live"
    /\ Retire(g)
    /\ root_set' = pop(root_set)
    /\ fatal' = IF guards[g].set THEN fatal ELSE MsgNotSet

\* A plausible slip: the guard is retired without popping the root-set.
drop_no_pop(g) ==
    /\ fatal = NoPanic
    /\ guards[g].st = "live"
    /\ Retire(g)
    /\ IF guards[g].set
       THEN UNCHANGED <<root_set, fatal>>
       ELSE fatal' = MsgNotSet /\ UNCHANGED root_set

\* Drop for RootStruct: assert the guard was set, then pop the root-set.
drop(g) ==
    /\ fatal = NoPanic
    /\ guards[g].st = "live"
    /\ Retire(g)
    /\ IF guards[g].set
       THEN /\ root_set' = pop(root_set)
            /\ UNCHANGED fatal
       ELSE /\ fatal' = MsgNotSet
            /\ UNCHANGED root_set

NoGuards ==
    /\ guards = [g \in Guards |-> [st |-> "none", set |-> FALSE, root |-> 0]]
    /\ root_set = <<>>
    /\ fatal = NoPanic
    /\ installed = <<>>
    /\ in_order = TRUE

\* ------------------------------------------------------------------------
\* Heap references and their rooted form
\* ------------------------------------------------------------------------

Objs == 0..(NumObjs - 1)

\* GcObj<'ob>: a tagged pointer together with the lifetime it is valid for.
GcObj(p, ob) == [ptr |-> p, ob |-> ob]

\* RawObj: the tagged pointer alone, its lifetime erased.
RawObj(p) == [ptr |-> p]

\* GcObj::into_raw
into_raw(obj) == RawObj(obj.ptr)

\* GcObj::from_raw: the lifetime of the result is chosen by the caller.
from_raw(raw, ob) == GcObj(raw.ptr, ob)

\* Arena::bind: the result lives as long as the borrow of the arena.
Arena_bind(obj, gc) == GcObj(obj.ptr, gc)

\* RootObj::new
RootObj_new(obj) == [obj |-> into_raw(obj)]

\* Rt::new
Rt_new(data) == [inner |-> data]

\* Rt<RootObj>::obj, read through a borrow of lifetime ob
Rt_obj(rt, ob) == from_raw(rt.inner.obj, ob)

\* Rt<RootObj>::bind
Rt_bind(rt, gc) == Arena_bind(from_raw(rt.inner.obj, gc), gc)

\* A plausible slip: the assignment writes nothing.
Rt_set_noop(rt, item) == rt

\* Rt<RootObj>::set
Rt_set(rt, item) == [rt EXCEPT !.inner.obj = into_raw(item)]

\* ------------------------------------------------------------------------
\* RootOwner and Root: the branded session pair
\* ------------------------------------------------------------------------

Scopes == 1..NumScopes
Cells == 1..NumCells

\* The lifetime of the items handed in, and the arena borrow bound against.
ItemLt == "ob"
ArenaLt == "gc"

NoCell == [id |-> 0, rt |-> Rt_new(RootObj_new(GcObj(0, ItemLt)))]

NoSession ==
    /\ scopes = [b \in Scopes |-> "none"]
    /\ cells = [c \in Cells |-> NoCell]
    /\ views = {}
    /\ direct = [c \in Cells |-> GcObj(0, ItemLt)]
    /\ ret2 = [o \in Scopes |-> <<>>]
    /\ owners = [b \in Scopes |-> 0]

View(c, o, k) == [cell |-> c, owner |-> o, kind |-> k]

\* generativity::make_guard!: a fresh brand.  Brands are numbered in creation
\* order.
make_guard(b) ==
    /\ scopes[b] = "none"
    /\ \A a \in Scopes : a < b => scopes[a] # "none"
    /\ scopes' = [scopes EXCEPT ![b] = "guard"]
    /\ last' = Event("make_guard", b, 0)
    /\ UNCHANGED <<nonOwnerVars, cells, views, direct, ret2, owners>>

\* A plausible slip: the Guard<'id> is taken by reference and stays usable.
RootOwner_new_by_ref(b) ==
    /\ scopes[b] \in {"guard", "owner"}
    /\ owners[b] < 2
    /\ scopes' = [scopes EXCEPT ![b] = "owner"]
    /\ owners' = [owners EXCEPT ![b] = @ + 1]
    /\ last' = Event("RootOwner_new", b, 0)
    /\ UNCHANGED <<nonOwnerVars, cells, views, direct, ret2>>

\* RootOwner::new(guard): consumes the Guard<'id>.
RootOwner_new(b) ==
    /\ scopes[b] = "guard"
    /\ scopes' = [scopes EXCEPT ![b] = "owner"]
    /\ owners' = [owners EXCEPT ![b] = @ + 1]
    /\ last' = Event("RootOwner_new", b, 0)
    /\ UNCHANGED <<nonOwnerVars, cells, views, direct, ret2>>

\* Root::new(obj) at type Root<'id, RootObj>, 'id being the brand b.
Root_new(c, b, obj) ==
    /\ cells[c].id = 0
    /\ \A a \in Cells : a < c => cells[a].id # 0
    /\ scopes[b] # "none"
    /\ cells' = [cells EXCEPT ![c] = [id |-> b, rt |-> Rt_new(RootObj_new(obj))]]
    /\ direct' = [direct EXCEPT ![c] = obj]
    /\ last' = Event("Root_new", c, obj.ptr)
    /\ UNCHANGED <<nonOwnerVars, scopes, views, ret2, owners>>

\* self: &Root<'id, T> and owner: &RootOwner<'id> name the same 'id.
SameBrand(c, o) == cells[c].id = o

\* owner: &'a RootOwner: no &'a mut borrow of the owner is outstanding.
OwnerShared(o) == scopes[o] = "owner" /\ \A v \in views : v.owner = o => v.kind = "ro"

\* owner: &'a mut RootOwner: no borrow of the owner is outstanding.
OwnerExclusive(o) == scopes[o] = "owner" /\ \A v \in views : v.owner # o

\* A plausible slip: a cell without a brand, open to any owner.
borrow_unbranded(c, o) ==
    /\ cells[c].id # 0
    /\ OwnerShared(o)
    /\ views' = views \cup {View(c, o, "ro")}
    /\ last' = Event("borrow", c, o)
    /\ UNCHANGED <<nonOwnerVars, scopes, cells, direct, ret2, owners>>

\* Root::borrow(&'a self, owner: &'a RootOwner<'id>) -> &'a Rt<T>
borrow(c, o) ==
    /\ cells[c].id # 0
    /\ SameBrand(c, o)
    /\ OwnerShared(o)
    /\ views' = views \cup {View(c, o, "ro")}
    /\ last' = Event("borrow", c, o)
    /\ UNCHANGED <<nonOwnerVars, scopes, cells, direct, ret2, owners>>

\* A plausible slip: the owner is taken by shared reference.
borrow_mut_shared(c, o) ==
    /\ cells[c].id # 0
    /\ SameBrand(c, o)
    /\ scopes[o] = "owner"
    /\ views' = views \cup {View(c, o, "rw")}
    /\ last' = Event("borrow_mut", c, o)
    /\ UNCHANGED <<nonOwnerVars, scopes, cells, direct, ret2, owners>>

\* Root::borrow_mut(&'a self, owner: &'a mut RootOwner<'id>, _: &'a Arena)
borrow_mut(c, o) ==
    /\ cells[c].id # 0
    /\ SameBrand(c, o)
    /\ OwnerExclusive(o)
    /\ views' = views \cup {View(c, o, "rw")}
    /\ last' = Event("borrow_mut", c, o)
    /\ UNCHANGED <<nonOwnerVars, scopes, cells, direct, ret2, owners>>

\* A plausible slip: the cells are handed to rw2 in the other order.
borrow_mut2_swapped(c1, c2, o) ==
    /\ cells[c1].id # 0 /\ cells[c2].id # 0
    /\ c1 # c2
    /\ SameBrand(c1, o) /\ SameBrand(c2, o)
    /\ OwnerExclusive(o)
    /\ views' = views \cup {View(c1, o, "rw"), View(c2, o, "rw")}
    /\ ret2' = [ret2 EXCEPT ![o] = <<View(c2, o, "rw"), View(c1, o, "rw")>>]
    /\ last' = Event("borrow_mut2", c1, c2)
    /\ UNCHANGED <<nonOwnerVars, scopes, cells, direct, owners>>

\* Root::borrow_mut2(gc1, gc2, owner, _) on two distinct cells (what rw2 does
\* with one cell given twice is qcell's concern)
borrow_mut2(c1, c2, o) ==
    /\ cells[c1].id # 0 /\ cells[c2].id # 0
    /\ c1 # c2
    /\ SameBrand(c1, o) /\ SameBrand(c2, o)
    /\ OwnerExclusive(o)
    /\ views' = views \cup {View(c1, o, "rw"), View(c2, o, "rw")}
    /\ ret2' = [ret2 EXCEPT ![o] = <<View(c1, o, "rw"), View(c2, o, "rw")>>]
    /\ last' = Event("borrow_mut2", c1, c2)
    /\ UNCHANGED <<nonOwnerVars, scopes, cells, direct, owners>>

\* The lifetime 'a of a view ends.
end_borrow(v) ==
    /\ v \in views
    /\ views' = views \ {v}
    /\ ret2' = [ret2 EXCEPT ![v.owner] = IF v.kind = "rw" THEN <<>> ELSE @]
    /\ last' = Event("end_borrow", v.cell, v.owner)
    /\ UNCHANGED <<nonOwnerVars, scopes, cells, direct, owners>>

\* set(item) through an exclusive view of cell c; the plain variable is
\* assigned the same item.
set_through(c, item) ==
    /\ \E v \in views : v.cell = c /\ v.kind = "rw"
    /\ cells' = [cells EXCEPT ![c].rt = Rt_set(cells[c].rt, item)]
    /\ direct' = [direct EXCEPT ![c] = item]
    /\ last' = Event("Rt_set", c, item.ptr)
    /\ UNCHANGED <<nonOwnerVars, scopes, views, ret2, owners>>

\* ------------------------------------------------------------------------
\* Rt<Vec<RootObj>>
\* ------------------------------------------------------------------------

\* IntoRoot<RootObj> for GcObj
into_root(obj) == RootObj_new(obj)

\* A RootObj read in place as a GcObj (the pointer cast of AsRef): the same
\* tagged pointer under the lifetime of the borrow.
RootObj_as_GcObj(root, ob) == GcObj(root.obj.ptr, ob)

\* A plausible slip: the new element goes to the front.
Rt_Vec_push_front(rt, item) == [rt EXCEPT !.inner = <<into_root(item)>> \o @]

\* Rt<Vec<T>>::push
Rt_Vec_push(rt, item) == [rt EXCEPT !.inner = Append(@, into_root(item))]

\* Index<usize> for Rt<Vec<T>>: element i (0-based) of the vector, viewed in
\* place as an Rt<T>.
Rt_Vec_index(rt, i) == [inner |-> rt.inner[i + 1]]

\* Index<Range<usize>> for Rt<Vec<T>>: elements [a, b), viewed in place as an
\* Rt<[T]>.
Rt_Vec_slice(rt, a, b) == [inner |-> SubSeq(rt.inner, a + 1, b)]

\* AsRef<[GcObj]> for Rt<[RootObj]>
Rt_slice_as_ref(rt, ob) ==
    [i \in 1..Len(rt.inner) |-> RootObj_as_GcObj(rt.inner[i], ob)]

\* vec.push(item); the plain vector is pushed the same item.
Vec_push(item) ==
    /\ Len(vec.inner) < MaxLen
    /\ vec' = Rt_Vec_push(vec, item)
    /\ pushed' = Append(pushed, item)
    /\ last' = Event("push", 0, item.ptr)
    /\ UNCHANGED <<nonRtVars, mem, plain>>

\* ------------------------------------------------------------------------
\* Rt<Option<(RootObj, RootObj)>>: the projections are pointer casts, so the
\* value is modelled as the words of its storage and a view as an address.
\* ------------------------------------------------------------------------

\* Layout of Option<(RootObj, RootObj)>: a discriminant word followed by the
\* pair; the pair's fields in declaration order.  Rt<T> is repr(transparent),
\* so Option<Rt<(T, U)>> and (Rt<T>, Rt<U>) are laid out the same way.
TagOff == 0
PayloadOff == 1
PairSize == 2
FieldOff(k) == k
OptSize == PayloadOff + PairSize

NoneTag == 0
SomeTag == 1

\* Where the rooted optional lives; the words after it are other storage.
OptAddr == 0
MemAddrs == 0..(2 * OptSize - 1)

None == [tag |-> "None"]
Some(a, b) == [tag |-> "Some", val |-> <<a, b>>]

\* The words of a freshly built Option<(RootObj, RootObj)>.
Store(opt) ==
    [a \in MemAddrs |->
        IF a = OptAddr + TagOff
        THEN IF opt.tag = "Some" THEN SomeTag ELSE NoneTag
        ELSE IF opt.tag = "Some" /\ a = OptAddr + PayloadOff + FieldOff(0)
             THEN RootObj_new(opt.val[1])
        ELSE IF opt.tag = "Some" /\ a = OptAddr + PayloadOff + FieldOff(1)
             THEN RootObj_new(opt.val[2])
        ELSE RootObj_new(GcObj(0, ItemLt))]

\* Deref for Rt<Option<T>>: the same address, as &Option<Rt<T>>
Rt_Option_deref(p) == p

\* DerefMut for Rt<Option<T>>: the same address, as &mut Option<Rt<T>>
Rt_Option_deref_mut(p) == p

\* Deref for Rt<(T, U)>: the same address, as &(Rt<T>, Rt<U>)
Rt_Pair_deref(p) == p

\* A plausible slip: the mutable view is of a copy of the pair, elsewhere.
Rt_Pair_deref_mut_copy(p) == p + OptSize

\* DerefMut for Rt<(T, U)>: the same address, as &mut (Rt<T>, Rt<U>)
Rt_Pair_deref_mut(p) == p

\* The Rt<RootObj> field k of the pair inside the optional, reached through
\* the mutable projections; only a Some has one.
ProjectMut(k) ==
    LET opt == Rt_Option_deref_mut(OptAddr)
        pair == Rt_Pair_deref_mut(opt + PayloadOff)
    IN  pair + FieldOff(k)

\* The optional read through the shared dereference alone.
ReadDirect(m, ob) ==
    LET opt == Rt_Option_deref(OptAddr)
        pair == Rt_Pair_deref(opt + PayloadOff)
    IN  IF m[opt + TagOff] = NoneTag
        THEN None
        ELSE Some(Rt_obj(Rt_new(m[pair + FieldOff(0)]), ob),
                  Rt_obj(Rt_new(m[pair + FieldOff(1)]), ob))

\* if let Some(pair) = &mut *opt { pair.k.set(item) }; the plain optional is
\* assigned the same item.
Opt_set_field(k, item) ==
    /\ mem[Rt_Option_deref_mut(OptAddr) + TagOff] = SomeTag
    /\ LET f == ProjectMut(k)
       IN  mem' = [mem EXCEPT ![f] = Rt_set(Rt_new(mem[f]), item).inner]
    /\ plain' = [plain EXCEPT !.val[k + 1] = item]
    /\ last' = Event("set_field", k, item.ptr)
    /\ UNCHANGED <<nonRtVars, vec, pushed>>

NoRt ==
    /\ vec = Rt_new(<<>>)
    /\ pushed = <<>>
    /\ mem = Store(None)
    /\ plain = None

\* ------------------------------------------------------------------------
\* Tracing through the root-set
\* ------------------------------------------------------------------------

\* Object::trace_mark: the reference goes onto the work list.
trace_mark(obj, stk) == Append(stk, into_raw(obj))

\* Trace for RootObj
RootObj_mark(root, stk) == trace_mark(from_raw(root.obj, ArenaLt), stk)

\* A plausible slip: the entry is a copy of the root taken at install time
\* (the root at address c is the c-th installed).
Pointee_snapshot(ptr) == [obj |-> at_install[ptr]]

\* What a root-set entry points at: the T stored in the Root at that address,
\* as it is now.
Pointee(ptr) == cells[ptr].rt.inner

\* The mark phase calls mark on every entry of the root-set, first to last.
RECURSIVE MarkEntries(_, _)
MarkEntries(entries, stk) ==
    IF entries = <<>> THEN stk
    ELSE MarkEntries(Tail(entries), RootObj_mark(Pointee(Head(entries)), stk))

\* root_struct!(ident, value, arena) in the scope of brand b: a Root is made
\* of the value, and a new RootStruct is set on the address of that Root.
\* Roots and guards are numbered in creation order, the Root at address c.
root_struct(g, c, b, obj) ==
    /\ fatal = NoPanic
    /\ guards[g].st = "none"
    /\ \A h \in Guards : h < g => guards[h].st # "none"
    /\ c \in Addrs /\ cells[c].id = 0
    /\ \A a \in Cells : a < c => cells[a].id # 0
    /\ scopes[b] # "none"
    /\ cells' = [cells EXCEPT ![c] = [id |-> b, rt |-> Rt_new(RootObj_new(obj))]]
    /\ direct' = [direct EXCEPT ![c] = obj]
    /\ guards' = [guards EXCEPT ![g] = [st |-> "live", set |-> TRUE, root |-> c]]
    /\ root_set' = push(root_set, c)
    /\ installed' = Append(installed, g)
    /\ at_install' = Append(at_install, RootObj_new(obj).obj)
    /\ last' = Event("root_struct", g, c)
    /\ UNCHANGED <<fatal, in_order, scopes, views, ret2, owners, rtVars, collVars,
                   arithVars, symVars>>

NoTrace == at_install = <<>>

\* ------------------------------------------------------------------------
\* Rt<Vec<RootObj>>: truncate, append, clear
\* ------------------------------------------------------------------------

Min(a, b) == IF a < b THEN a ELSE b

\* Vec::truncate: no effect when len is not below the current length
Vec_truncate(v, len) == IF len >= Len(v) THEN v ELSE SubSeq(v, 1, len)

\* Vec::append: all elements of other move to the end of v; other is emptied.
\* The pair is (v, other) after the call.
Vec_append(v, other) == <<v \o other, <<>>>>

\* Vec::clear
Vec_clear(v) == <<>>

\* Rt<Vec<T>>::as_gc: the elements in place, as an Rt<[T]>
Rt_Vec_as_gc(rt) == [inner |-> rt.inner]

\* Rt<Vec<T>>::truncate
Rt_Vec_truncate(rt, len) == [rt EXCEPT !.inner = Vec_truncate(@, len)]

\* A plausible slip: the elements are copied and other keeps them.
Rt_Vec_append_copy(rt, other) == <<[rt EXCEPT !.inner = @ \o other.inner], other>>

\* Rt<Vec<T>>::append, the pair (self, other) after the call
Rt_Vec_append(rt, other) ==
    LET r == Vec_append(rt.inner, other.inner)
    IN  <<[rt EXCEPT !.inner = r[1]], [other EXCEPT !.inner = r[2]]>>

\* Rt<Vec<T>>::clear
Rt_Vec_clear(rt) == [rt EXCEPT !.inner = Vec_clear(@)]

\* vec_b.push(item)
Vec_b_push(item) ==
    /\ Len(vec_b.inner) < MaxOther
    /\ vec_b' = Rt_Vec_push(vec_b, item)
    /\ plain_b' = Append(plain_b, item)
    /\ last' = Event("push_b", 0, item.ptr)
    /\ UNCHANGED <<nonCollVars, rtVars, map, plain_map>>

\* vec.truncate(len); the plain vector keeps its first min(len, size) items.
Vec_a_truncate(len) ==
    /\ vec' = Rt_Vec_truncate(vec, len)
    /\ pushed' = SubSeq(pushed, 1, Min(len, Len(pushed)))
    /\ last' = Event("truncate", Len(pushed), len)
    /\ UNCHANGED <<nonRtVars, mem, plain>>

\* vec.clear(); the plain vector becomes empty.
Vec_a_clear ==
    /\ vec' = Rt_Vec_clear(vec)
    /\ pushed' = <<>>
    /\ last' = Event("clear", Len(pushed), 0)
    /\ UNCHANGED <<nonRtVars, mem, plain>>

\* vec.append(&mut vec_b); the plain vectors: all of b's items go to the end
\* of a, in order, and b becomes empty.
Vec_a_append ==
    /\ Len(vec.inner) + Len(vec_b.inner) <= MaxLen
    /\ LET r == Rt_Vec_append(vec, vec_b)
       IN  vec' = r[1] /\ vec_b' = r[2]
    /\ pushed' = pushed \o plain_b
    /\ plain_b' = <<>>
    /\ last' = Event("append", Len(pushed), Len(plain_b))
    /\ UNCHANGED <<nonCollVars, mem, plain, map, plain_map>>

\* ------------------------------------------------------------------------
\* Rt<HashMap<K, RootObj>>
\* ------------------------------------------------------------------------

Keys == 1..NumKeys

\* HashMap::new
HashMap_new == [k \in {} |-> 0]

\* HashMap::insert: the value under k is replaced, the other entries stay
HashMap_insert(m, k, v) ==
    [x \in DOMAIN m \cup {k} |-> IF x = k THEN v ELSE m[x]]

\* Option<&Rt<V>>
NoRef == [tag |-> "None"]
SomeRef(rt) == [tag |-> "Some", rt |-> rt]

\* Rt<HashMap<K, V>>::get: the value under k in place, as an Rt<V>
Rt_Map_get(rt, k) ==
    IF k \in DOMAIN rt.inner THEN SomeRef(Rt_new(rt.inner[k])) ELSE NoRef

\* A plausible slip: an existing entry is kept.
Rt_Map_insert_if_absent(rt, k, v) ==
    IF k \in DOMAIN rt.inner THEN rt
    ELSE [rt EXCEPT !.inner = HashMap_insert(@, k, into_root(v))]

\* Rt<HashMap<K, V>>::insert
Rt_Map_insert(rt, k, v) == [rt EXCEPT !.inner = HashMap_insert(@, k, into_root(v))]

\* Rt<HashMap<K, V>>::get_mut followed by Rt<RootObj>::set on the view: the
\* value under k is written in place.  Nothing to write when get_mut is None.
Rt_Map_set_through(rt, k, item) ==
    IF k \in DOMAIN rt.inner
    THEN [rt EXCEPT !.inner[k] = Rt_set(Rt_new(@), item).inner]
    ELSE rt

\* map.insert(k, v); the plain map is given the same entry.
Map_insert(k, v) ==
    /\ map' = Rt_Map_insert(map, k, v)
    /\ plain_map' = [x \in DOMAIN plain_map \cup {k} |->
                        IF x = k THEN v ELSE plain_map[x]]
    /\ last' = Event("insert", k, v.ptr)
    /\ UNCHANGED <<nonCollVars, rtVars, vec_b, plain_b>>

\* if let Some(x) = map.get_mut(k) { x.set(item) }; the plain map entry is
\* assigned the same item.
Map_set(k, item) ==
    /\ k \in DOMAIN plain_map
    /\ map' = Rt_Map_set_through(map, k, item)
    /\ plain_map' = [plain_map EXCEPT ![k] = item]
    /\ last' = Event("get_mut", k, item.ptr)
    /\ UNCHANGED <<nonCollVars, rtVars, vec_b, plain_b>>

NoColl ==
    /\ vec_b = Rt_new(<<>>)
    /\ plain_b = <<>>
    /\ map = Rt_new(HashMap_new)
    /\ plain_map = HashMap_new

\* ------------------------------------------------------------------------
\* arith.rs: f64 and i64 values
\* ------------------------------------------------------------------------

Abs(n) == IF n < 0 THEN -n ELSE n
Sign(n) == IF n < 0 THEN -1 ELSE 1

RECURSIVE GCD(_, _)
GCD(a, b) == IF b = 0 THEN a ELSE GCD(b, a % b)

\* An f64: a signed zero or fraction num/den in lowest terms, an infinity, or
\* NaN.  Quotients that an f64 would round are kept exact.
Fin(sgn, num, den) ==
    LET g == GCD(num, den)
    IN  [cls |-> "fin", sgn |-> sgn, num |-> num \div g, den |-> den \div g]
Inf(sgn) == [cls |-> "inf", sgn |-> sgn, num |-> 1, den |-> 0]
NaN == [cls |-> "nan", sgn |-> 1, num |-> 0, den |-> 0]
IsZero(x) == x.cls = "fin" /\ x.num = 0

\* `x as f64`
i64_as_f64(n) == Fin(Sign(n), Abs(n), 1)

\* Neg for f64
f64_neg(x) == IF x.cls = "nan" THEN x ELSE [x EXCEPT !.sgn = -@]

\* Add::add for f64
f64_add(a, b) ==
    IF a.cls = "nan" \/ b.cls = "nan" THEN NaN
    ELSE IF a.cls = "inf" /\ b.cls = "inf"
         THEN (IF a.sgn = b.sgn THEN a ELSE NaN)
    ELSE IF a.cls = "inf" THEN a
    ELSE IF b.cls = "inf" THEN b
    ELSE LET n == a.sgn * a.num * b.den + b.sgn * b.num * a.den
         IN  IF n = 0
             THEN Fin(IF a.sgn = -1 /\ b.sgn = -1 THEN -1 ELSE 1, 0, 1)
             ELSE Fin(Sign(n), Abs(n), a.den * b.den)

\* Sub::sub for f64
f64_sub(a, b) == f64_add(a, f64_neg(b))

\* Mul::mul for f64
f64_mul(a, b) ==
    IF a.cls = "nan" \/ b.cls = "nan" THEN NaN
    ELSE IF (a.cls = "inf" /\ IsZero(b)) \/ (IsZero(a) /\ b.cls = "inf") THEN NaN
    ELSE IF a.cls = "inf" \/ b.cls = "inf" THEN Inf(a.sgn * b.sgn)
    ELSE IF a.num = 0 \/ b.num = 0 THEN Fin(a.sgn * b.sgn, 0, 1)
    ELSE Fin(a.sgn * b.sgn, a.num * b.num, a.den * b.den)

\* Div::div for f64
f64_div(a, b) ==
    IF a.cls = "nan" \/ b.cls = "nan" THEN NaN
    ELSE IF a.cls = "inf" /\ b.cls = "inf" THEN NaN
    ELSE IF IsZero(a) /\ IsZero(b) THEN NaN
    ELSE IF a.cls = "inf" THEN Inf(a.sgn * b.sgn)
    ELSE IF b.cls = "inf" THEN Fin(a.sgn * b.sgn, 0, 1)
    ELSE IF IsZero(b) THEN Inf(a.sgn * b.sgn)
    ELSE IF a.num = 0 THEN Fin(a.sgn * b.sgn, 0, 1)
    ELSE Fin(a.sgn * b.sgn, a.num * b.den, a.den * b.num)

\* A plausible slip: the quotient is rounded down instead of toward zero.
i64_div_floor(a, b) == a \div b

\* Div::div for i64, b # 0: the quotient rounded toward zero
i64_div(a, b) == Sign(a) * Sign(b) * (Abs(a) \div Abs(b))

\* Div::div for i64 panics on a zero divisor
DivPanics(op, b) == op = "Div" /\ b = 0

\* the int_fn handed to NumberFold::acc by add, sub, mul, div
int_fn(op, a, b) ==
    CASE op = "Add" -> a + b
      [] op = "Sub" -> a - b
      [] op = "Mul" -> a * b
      [] op = "Div" -> i64_div(a, b)

\* the float_fn handed to NumberFold::acc by add, sub, mul, div
float_fn(op, a, b) ==
    CASE op = "Add" -> f64_add(a, b)
      [] op = "Sub" -> f64_sub(a, b)
      [] op = "Mul" -> f64_mul(a, b)
      [] op = "Div" -> f64_div(a, b)

\* ------------------------------------------------------------------------
\* arith.rs: NumberFold and the four folds
\* ------------------------------------------------------------------------

\* A Number object holding an Int or a Float
IntNumber(n) == [ty |-> "Number", kind |-> "Int", i |-> n]
FloatNumber(f) == [ty |-> "Number", kind |-> "Float", f |-> f]

\* Option<Number>
NoNumber == [tag |-> "None"]
SomeNumber(n) == [tag |-> "Some", x |-> n]

\* The call unwound with a panic.
Panic == [ty |-> "Panic", kind |-> "none"]
NoResult == [ty |-> "NoResult", kind |-> "none"]

\* From<i64> / From<f64> for NumberFold
From_i64(x) == [ty |-> "NumberFold", kind |-> "Int", i |-> x]
From_f64(x) == [ty |-> "NumberFold", kind |-> "Float", f |-> x]

\* From<Number> for NumberFold
From_Number(num) == IF num.kind = "Int" THEN From_i64(num.i) ELSE From_f64(num.f)

\* NumberFold::into_number
into_number(fold) ==
    IF fold = Panic THEN Panic
    ELSE IF fold.kind = "Int" THEN IntNumber(fold.i) ELSE FloatNumber(fold.f)

\* A plausible slip: the kind of the next operand decides the kind of the
\* accumulator.
NumberFold_acc_next_kind(cur, next, op) ==
    IF next.kind = "Float"
    THEN From_f64(float_fn(op, IF cur.kind = "Int" THEN i64_as_f64(cur.i) ELSE cur.f,
                           next.f))
    ELSE IF DivPanics(op, next.i) THEN Panic
    ELSE From_i64(int_fn(op, IF cur.kind = "Int" THEN cur.i
                             ELSE cur.f.sgn * (cur.f.num \div cur.f.den),
                         next.i))

\* NumberFold::acc
NumberFold_acc(cur, next, op) ==
    IF cur.kind = "Float"
    THEN IF next.kind = "Float"
         THEN From_f64(float_fn(op, cur.f, next.f))
         ELSE From_f64(float_fn(op, cur.f, i64_as_f64(next.i)))
    ELSE IF next.kind = "Float"
         THEN From_f64(float_fn(op, i64_as_f64(cur.i), next.f))
         ELSE IF DivPanics(op, next.i) THEN Panic
              ELSE From_i64(int_fn(op, cur.i, next.i))

\* Iterator::fold with NumberFold::acc: the accumulators from the initial one
\* to the final one, cut short where a step panics.
RECURSIVE fold(_, _, _)
fold(init, xs, op) ==
    IF xs = <<>> \/ init = Panic THEN <<init>>
    ELSE <<init>> \o fold(NumberFold_acc(init, Head(xs), op), Tail(xs), op)

Last(s) == s[Len(s)]
Returned(as) == [accs |-> as, ret |-> into_number(Last(as))]

\* A plausible slip: the sum is folded from 1.
add_from_one(xs) == Returned(fold(From_i64(1), xs, "Add"))

\* add
add(xs) == Returned(fold(From_i64(0), xs, "Add"))

\* A plausible slip: a lone argument is returned as it is.
sub_no_negate(num_opt, xs) ==
    LET num == IF num_opt.tag = "Some" THEN From_Number(num_opt.x) ELSE From_i64(0)
    IN  Returned(fold(num, xs, "Sub"))

\* sub
sub(num_opt, xs) ==
    LET num == IF num_opt.tag = "Some" THEN From_Number(num_opt.x) ELSE From_i64(0)
    IN  IF xs = <<>>
        THEN [accs |-> <<num>>,
              ret |-> IF num.kind = "Int" THEN IntNumber(-num.i)
                      ELSE FloatNumber(f64_neg(num.f))]
        ELSE Returned(fold(num, xs, "Sub"))

\* mul
mul(xs) == Returned(fold(From_i64(1), xs, "Mul"))

\* div
div(num, xs) == Returned(fold(From_Number(num), xs, "Div"))

\* One call of one of the four functions on the arguments drawn at the start.
Call(op, r) ==
    /\ result = NoResult
    /\ result' = r.ret
    /\ accs' = r.accs
    /\ last' = Event(op, 0, 0)
    /\ UNCHANGED <<guards, root_set, fatal, installed, in_order, ownerVars,
                   rtVars, traceVars, collVars, number, numbers, symVars>>

call_add == Call("add", add(numbers))
call_sub == Call("sub", sub(number, numbers))
call_mul == Call("mul", mul(numbers))
call_div == number.tag = "Some" /\ Call("div", div(number.x, numbers))

\* The arguments the calls are tried on.
SampleInts == {-7, 0, 1, 2, 5, 7, 12, 13}
SampleFloats == {Fin(1, 0, 1), Fin(1, 5, 2), Fin(-1, 3, 2), Fin(1, 12, 1)}
SampleNumbers ==
    {IntNumber(n) : n \in SampleInts} \cup {FloatNumber(f) : f \in SampleFloats}
SampleArgs == UNION {[1..n -> SampleNumbers] : n \in 0..MaxArgs}

NoArith ==
    /\ number = NoNumber
    /\ numbers = <<>>
    /\ result = NoResult
    /\ accs = <<>>

\* ------------------------------------------------------------------------
\* symbol.rs: InnerSymbol and its function cell
\* ------------------------------------------------------------------------

\* What a function object holds: a LispFn with its first op code, or a SubrFn
\* with its name.
FunctionValues ==
    {[kind |-> "LispFn", op_code |-> c] : c \in {1, 7}}
        \cup {[kind |-> "SubrFn", name |-> "bar"]}

\* A Function: one word, the address of the function object with the tag of
\* its kind in the low bits.
TagSpace == 8
Tag(kind) == IF kind = "LispFn" THEN 2 ELSE 3
KindOf(tag) == IF tag = 2 THEN "LispFn" ELSE "SubrFn"
Function(ptr, kind) == [ptr |-> ptr, kind |-> kind]

\* Option<Function>
NoFunction == [tag |-> "None"]
SomeFunction(f) == [tag |-> "Some", f |-> f]

\* mem::transmute::<Function, i64> and back
transmute_to_i64(func) == func.ptr * TagSpace + Tag(func.kind)
transmute_from_i64(bits) == Function(bits \div TagSpace, KindOf(bits % TagSpace))

\* Arena::insert of a function object: the object gets the next free
\* address, never the null address; the pair is the arena after the call
\* and the Function returned.
Arena_insert(heap, val) ==
    <<Append(heap, val), Function(Len(heap) + 1, val.kind)>>

\* Function::val: the function object the Function points at
Function_val(heap, func) == heap[func.ptr]

\* FnCell::new
FnCell_new == 0

\* A plausible slip: a cell that is already set keeps its function.
FnCell_set_once(cell, func) == IF cell = 0 THEN transmute_to_i64(func) ELSE cell

\* FnCell::set: the bits the cell holds after the store
FnCell_set(cell, func) == transmute_to_i64(func)

\* FnCell::get
FnCell_get(cell) ==
    IF cell = 0 THEN NoFunction ELSE SomeFunction(transmute_from_i64(cell))

\* InnerSymbol::new
InnerSymbol_new(name) == [name |-> name, func |-> FnCell_new]

\* InnerSymbol::set_func
InnerSymbol_set_func(s, func) == [s EXCEPT !.func = FnCell_set(@, func)]

\* InnerSymbol::get_func
InnerSymbol_get_func(s) == FnCell_get(s.func)

\* arena.insert(func) for a new function object
arena_insert(val) ==
    /\ Len(fn_heap) < NumFuncs
    /\ fn_heap' = Arena_insert(fn_heap, val)[1]
    /\ last' = Event("arena_insert", 0, Len(fn_heap) + 1)
    /\ UNCHANGED <<nonSymVars, sym, got, last_set>>

\* x.set_func(func) for a Function the arena has handed out
set_func(func) ==
    /\ func.ptr \in 1..Len(fn_heap)
    /\ func.kind = fn_heap[func.ptr].kind
    /\ sym' = InnerSymbol_set_func(sym, func)
    /\ last_set' = SomeFunction(func)
    /\ last' = Event("set_func", 0, func.ptr)
    /\ UNCHANGED <<nonSymVars, fn_heap, got>>

\* x.get_func(): what is returned is kept, with the function given to the
\* latest set_func and the function object seen through the result.
get_func ==
    /\ Len(got) < MaxGets
    /\ LET r == InnerSymbol_get_func(sym)
       IN  got' = Append(got, [ret |-> r, want |-> last_set,
                               seen |-> IF r.tag = "Some"
                                        THEN <<Function_val(fn_heap, r.f)>>
                                        ELSE <<>>])
    /\ last' = Event("get_func", 0, Len(got) + 1)
    /\ UNCHANGED <<nonSymVars, sym, fn_heap, last_set>>

NoSym ==
    /\ sym = InnerSymbol_new("foo")
    /\ fn_heap = <<>>
    /\ got = <<>>
    /\ last_set = NoFunction

\* ------------------------------------------------------------------------
\* Specifications
\* ------------------------------------------------------------------------

Init ==
    /\ last = NoEvent
    /\ NoGuards
    /\ NoSession
    /\ NoRt
    /\ NoTrace
    /\ NoColl
    /\ NoSym
    /\ NoArith

\* A session whose owner has been made, and no root yet.
InitTrace ==
    /\ last = NoEvent
    /\ NoGuards
    /\ scopes = [b \in Scopes |-> IF b = 1 THEN "owner" ELSE "none"]
    /\ owners = [b \in Scopes |-> IF b = 1 THEN 1 ELSE 0]
    /\ cells = [c \in Cells |-> NoCell]
    /\ views = {}
    /\ direct = [c \in Cells |-> GcObj(0, ItemLt)]
    /\ ret2 = [o \in Scopes |-> <<>>]
    /\ NoRt
    /\ NoTrace
    /\ NoColl
    /\ NoSym
    /\ NoArith

\* An empty rooted vector and a rooted optional built from any value.
InitRt ==
    /\ last = NoEvent
    /\ NoGuards
    /\ NoSession
    /\ NoTrace
    /\ NoColl
    /\ NoSym
    /\ NoArith
    /\ vec = Rt_new(<<>>)
    /\ pushed = <<>>
    /\ \E opt \in {None} \cup {Some(GcObj(a, ItemLt), GcObj(b, ItemLt)) : a, b \in Objs} :
           mem = Store(opt) /\ plain = opt

NextGuard ==
    \/ \E g \in Guards : RootStruct_new(g)
    \/ \E g \in Guards, r \in Addrs : set(g, r)
    \/ \E g \in Guards, r \in Addrs : set_rt(g, r)
    \/ \E g \in Guards : drop(g)

SpecGuard == Init /\ [][NextGuard]_vars

NextOwner ==
    \/ \E b \in Scopes : make_guard(b)
    \/ \E b \in Scopes : RootOwner_new(b)
    \/ \E c \in Cells, b \in Scopes, p \in Objs : Root_new(c, b, GcObj(p, ItemLt))
    \/ \E c \in Cells, o \in Scopes : borrow(c, o)
    \/ \E c \in Cells, o \in Scopes : borrow_mut(c, o)
    \/ \E c1 \in Cells, c2 \in Cells, o \in Scopes : borrow_mut2(c1, c2, o)
    \/ \E v \in views : end_borrow(v)
    \/ \E c \in Cells, p \in Objs : set_through(c, GcObj(p, ItemLt))

SpecOwner == Init /\ [][NextOwner]_vars

NextRt ==
    \/ \E p \in Objs : Vec_push(GcObj(p, ItemLt))
    \/ \E k \in {0, 1}, p \in Objs : Opt_set_field(k, GcObj(p, ItemLt))

SpecRt == InitRt /\ [][NextRt]_vars

NextTrace ==
    \/ \E g \in Guards, c \in Cells, b \in Scopes, p \in Objs :
           root_struct(g, c, b, GcObj(p, ItemLt))
    \/ \E c \in Cells, o \in Scopes : borrow_mut(c, o)
    \/ \E v \in views : end_borrow(v)
    \/ \E c \in Cells, p \in Objs : set_through(c, GcObj(p, ItemLt))

SpecTrace == InitTrace /\ [][NextTrace]_vars

NextVec ==
    \/ \E p \in Objs : Vec_push(GcObj(p, ItemLt))
    \/ \E p \in Objs : Vec_b_push(GcObj(p, ItemLt))
    \/ \E len \in 0..(MaxLen + 1) : Vec_a_truncate(len)
    \/ Vec_a_clear
    \/ Vec_a_append

SpecVec == Init /\ [][NextVec]_vars

NextMap ==
    \/ \E k \in Keys, p \in Objs : Map_insert(k, GcObj(p, ItemLt))
    \/ \E k \in Keys, p \in Objs : Map_set(k, GcObj(p, ItemLt))

SpecMap == Init /\ [][NextMap]_vars

InitArith ==
    /\ last = NoEvent
    /\ NoGuards
    /\ NoSession
    /\ NoRt
    /\ NoTrace
    /\ NoColl
    /\ NoSym
    /\ number \in {NoNumber} \cup {SomeNumber(n) : n \in SampleNumbers}
    /\ numbers \in SampleArgs
    /\ result = NoResult
    /\ accs = <<>>

NextArith ==
    \/ call_add
    \/ call_sub
    \/ call_mul
    \/ call_div

SpecArith == InitArith /\ [][NextArith]_vars

NextSym ==
    \/ \E val \in FunctionValues : arena_insert(val)
    \/ \E p \in 1..NumFuncs, k \in {"LispFn", "SubrFn"} : set_func(Function(p, k))
    \/ get_func

SpecSym == Init /\ [][NextSym]_vars

\* ------------------------------------------------------------------------
\* Properties of the guard and the root-set
\* ------------------------------------------------------------------------

\* The addresses of the roots of the live installed guards, in install order.
LiveAddrs == [i \in 1..Len(installed) |-> guards[installed[i]].root]

\* An address is dangling when no live installed guard wraps it.
Dangling(a) == ~\E g \in Guards :
                   guards[g].st = "live" /\ guards[g].set /\ guards[g].root = a

\* The step is a teardown of guard g.
IsDrop(g) == /\ guards[g].st = "live"
             /\ guards'[g].st = "dropped"
             /\ last' = Event("drop", g, 0)

\* The step is a call of set or set_rt on guard g.
IsInstall(g) == /\ guards[g].st = "live"
                /\ last'.op \in {"set", "set_rt"}
                /\ last'.g = g
                /\ vars' # vars

RemoveAt(s, i) == SubSeq(s, 1, i - 1) \o SubSeq(s, i + 1, Len(s))
Pos(g) == CHOOSE i \in 1..Len(installed) : installed[i] = g

\* C1: as long as every teardown retired the most recently installed live
\* guard, the root-set holds exactly the addresses of the live installed
\* guards (so it is back to its earlier size and entries once the guards
\* installed since then are gone) and holds no dangling address.
C1_StackOrderRestores ==
    in_order => /\ root_set = LiveAddrs
                /\ \A i \in 1..Len(root_set) : ~Dangling(root_set[i])

\* Two guards were installed and torn down in stack order, and the root-set
\* is empty again.
C1_Witness ==
    /\ in_order
    /\ root_set = <<>>
    /\ last.op = "drop"
    /\ Cardinality({g \in Guards : guards[g].st = "dropped" /\ guards[g].set}) >= 2

\* C2: a teardown of an installed guard A while a guard installed after A is
\* still alive triggers a fatal check.
C2_OutOfOrderIsFatal ==
    [][\A a \in Guards :
         (IsDrop(a) /\ guards[a].set /\ installed[Len(installed)] # a)
             => fatal' # NoPanic]_vars

\* C3: the teardown of an installed guard G removes from the root-set exactly
\* the entry G's install pushed and leaves the other entries in place,
\* whatever the order of teardowns.
C3_TeardownRemovesOwnEntry ==
    [][\A g \in Guards :
         (IsDrop(g) /\ guards[g].set /\ root_set = LiveAddrs)
             => root_set' = RemoveAt(root_set, Pos(g))]_vars

\* C4: in every reachable state the root-set holds exactly one entry for each
\* live installed guard, in installation order.
C4_RootSetIsLiveGuards ==
    /\ root_set = LiveAddrs
    /\ \A i \in 1..Len(root_set) : ~Dangling(root_set[i])

\* C5: a second install on a guard (set or set_rt, in any combination)
\* panics with the "only set once" message before anything is pushed.
C5_SecondInstallIsFatal ==
    [][\A g \in Guards :
         (IsInstall(g) /\ guards[g].set)
             => /\ fatal' = MsgSetOnce
                /\ root_set' = root_set
                /\ guards' = guards]_vars

\* A second install was attempted through the other entry point than the
\* first, and the root-set holds the first install's entry only.
C5_Witness ==
    /\ fatal = MsgSetOnce
    /\ last.op = "set_rt"
    /\ root_set = <<guards[last.g].root>>
    /\ last.root # guards[last.g].root

\* C6: the teardown of a guard that was never installed panics and does not
\* pop the root-set.
C6_UnsetTeardownIsFatal ==
    [][\A g \in Guards :
         (IsDrop(g) /\ ~guards[g].set)
             => /\ fatal' = MsgNotSet
                /\ root_set' = root_set]_vars

\* A never-installed guard was torn down while another guard's entry was in
\* the root-set.
C6_Witness ==
    /\ fatal = MsgNotSet
    /\ last.op = "drop"
    /\ ~guards[last.g].set
    /\ root_set # <<>>


\* ------------------------------------------------------------------------
\* Properties of the branded session pair and of the rooted representation
\* ------------------------------------------------------------------------

\* C7: every view handed out by borrow, borrow_mut or borrow_mut2 is held by
\* the owner whose brand is the brand of the viewed cell; no owner has a view
\* of a cell of another scope.
C7_ViewsMatchBrand ==
    \A v \in views : scopes[v.owner] = "owner" /\ cells[v.cell].id = v.owner

\* Two scopes each have their owner and a cell holding the same value, and
\* the first owner has a view of its own cell.
C7_Witness ==
    /\ \A b \in {1, 2} : scopes[b] = "owner"
    /\ \E c1, c2 \in Cells :
          /\ cells[c1].id = 1 /\ cells[c2].id = 2
          /\ cells[c1].rt = cells[c2].rt
          /\ \E v \in views : v.cell = c1 /\ v.owner = 1

\* C8: bind (and obj) on a rooted scalar returns the tagged pointer of the
\* item given to the most recent set through the exclusive view, the same a
\* plain variable given the same assignments holds, or the item the root was
\* created with when nothing was set.
C8_BindReturnsLastSet ==
    /\ \A c \in Cells : cells[c].id # 0 =>
          /\ Rt_bind(cells[c].rt, ArenaLt) = Arena_bind(direct[c], ArenaLt)
          /\ Rt_obj(cells[c].rt, ItemLt) = direct[c]
    /\ last.op = "Rt_set" => Rt_bind(cells[last.g].rt, ArenaLt).ptr = last.root

\* A non-default item was just set through an exclusive view that is still
\* outstanding.
C8_Witness ==
    /\ last.op = "Rt_set"
    /\ last.root = NumObjs - 1
    /\ direct[last.g].ptr = last.root
    /\ \E v \in views : v.cell = last.g /\ v.kind = "rw"

\* C9: after pushes v1..vn on an empty rooted vector, element i is a view of
\* v(i+1) and the slice [0, n) reads as v1..vn in push order.
C9_IndexAndSliceFollowPushes ==
    LET n == Len(pushed)
    IN  /\ Len(vec.inner) = n
        /\ \A i \in 0..(n - 1) : Rt_obj(Rt_Vec_index(vec, i), ItemLt) = pushed[i + 1]
        /\ Rt_slice_as_ref(Rt_Vec_slice(vec, 0, n), ItemLt) = pushed

\* Three different items were pushed.
C9_Witness ==
    /\ Len(pushed) = 3
    /\ Cardinality({pushed[i] : i \in 1..3}) = 3
    /\ last.op = "push"

\* C10: what the direct dereference of the rooted optional reads is what a
\* plain optional given the same field assignments holds: an assignment to
\* one field of the pair made through the projected mutable view is seen,
\* and the other field is as it was.
C10_ProjectionPathsAgree == ReadDirect(mem, ItemLt) = plain

\* The first field of the pair was just assigned a value other than the
\* second field's.
C10_Witness ==
    /\ last = Event("set_field", 0, NumObjs - 1)
    /\ plain.tag = "Some"
    /\ plain.val[1].ptr = NumObjs - 1
    /\ plain.val[2].ptr = 0

\* ------------------------------------------------------------------------
\* Properties of the exclusive borrows and of the owner token
\* ------------------------------------------------------------------------

ViewsOf(o) == {v \in views : v.owner = o}

\* C11: borrow_mut2(A, B, owner, heap) on two distinct cells returns two
\* exclusive views, the first of A and the second of B, and a set through one
\* of them changes that cell only: what the other view reads stays as it was.
C11_BorrowMut2ViewsAreDisjoint ==
    [][/\ \A c1, c2 \in Cells, o \in Scopes :
            (last' = Event("borrow_mut2", c1, c2) /\ ret2'[o] # ret2[o])
                => /\ ret2'[o] = <<View(c1, o, "rw"), View(c2, o, "rw")>>
                   /\ c1 # c2
                   /\ {ret2'[o][1], ret2'[o][2]} \subseteq views'
       /\ \A o \in Scopes, k \in {1, 2} :
            (/\ ret2[o] # <<>>
             /\ last'.op = "Rt_set"
             /\ last'.g = ret2[o][k].cell)
                => LET w == ret2[o][k].cell
                       other == ret2[o][3 - k].cell
                   IN  /\ Rt_obj(cells'[w].rt, ItemLt).ptr = last'.root
                       /\ Rt_obj(cells'[other].rt, ItemLt) = Rt_obj(cells[other].rt, ItemLt)
                       /\ \A c \in Cells \ {w} : cells'[c] = cells[c]]_vars

\* The second view of a pair was just written, and the two cells of the pair
\* hold different values.
C11_Witness ==
    \E o \in Scopes :
        /\ ret2[o] # <<>>
        /\ last.op = "Rt_set"
        /\ last.g = ret2[o][2].cell
        /\ cells[ret2[o][1].cell].rt # cells[ret2[o][2].cell].rt

\* C12: no session brand ever has two owner tokens, so no root cell has two
\* owners able to borrow it.
C12_OneOwnerPerBrand ==
    /\ \A b \in Scopes : owners[b] <= 1 /\ (owners[b] = 1 <=> scopes[b] = "owner")
    /\ \A c \in Cells : cells[c].id # 0 => owners[cells[c].id] <= 1

\* Every brand has its owner, and a cell is borrowed through one of them.
C12_Witness ==
    /\ \A b \in Scopes : owners[b] = 1
    /\ \E v \in views : owners[cells[v.cell].id] = 1

C13_MarkSeesLatestValue ==
    MarkEntries(root_set, <<>>) =
        [i \in 1..Len(root_set) |-> into_raw(direct[root_set[i]])]

\* A root was set after it was installed: a mark now enumerates a reference
\* other than the one the root held at install time.
C13_Witness ==
    /\ last.op = "Rt_set"
    /\ \E i \in 1..Len(root_set) :
          /\ root_set[i] = last.g
          /\ MarkEntries(root_set, <<>>)[i] # at_install[i]

\* ------------------------------------------------------------------------
\* Properties of the rooted collections
\* ------------------------------------------------------------------------

\* C15: under every sequence of push, truncate, append and clear the rooted
\* vectors read as the plain vectors given the same operations, truncate
\* keeping the first min(len, size) items, clear leaving none, and append
\* moving all of b's items to the end of a and leaving b empty.
C15_RootedVecMirrorsPlainVec ==
    /\ Rt_slice_as_ref(Rt_Vec_as_gc(vec), ItemLt) = pushed
    /\ Rt_slice_as_ref(Rt_Vec_as_gc(vec_b), ItemLt) = plain_b

\* An append has just moved the items of a non-empty b behind those of a
\* non-empty a.
C15_Witness ==
    /\ last.op = "append"
    /\ last.g >= 1 /\ last.root >= 1
    /\ Len(vec.inner) = last.g + last.root
    /\ vec_b.inner = <<>>

\* C16: get(k) is a view of the value last inserted under k or last set
\* through get_mut(k), and is nothing for a key never inserted; an insert
\* under an existing key replaces its value and leaves the other keys alone.
C16_MapGetReturnsLatest ==
    \A k \in Keys :
        LET r == Rt_Map_get(map, k)
        IN  IF k \in DOMAIN plain_map
            THEN r.tag = "Some" /\ Rt_obj(r.rt, ItemLt) = plain_map[k]
            ELSE r = NoRef

\* An insert has just replaced the value of a key while another key holds a
\* different value and a third was never inserted.
C16_Witness ==
    /\ last.op = "insert"
    /\ Rt_Map_get(map, last.g).rt.inner.obj.ptr = last.root
    /\ \E k \in DOMAIN plain_map : k # last.g /\ plain_map[k].ptr # last.root
    /\ \E k \in Keys : Rt_Map_get(map, k) = NoRef

\* ------------------------------------------------------------------------
\* Properties of the arithmetic functions
\* ------------------------------------------------------------------------

AllInt(xs) == \A i \in 1..Len(xs) : xs[i].kind = "Int"

\* The sum and the product of a list of Int numbers, from the right.
RECURSIVE IntSum(_)
IntSum(xs) == IF xs = <<>> THEN 0 ELSE Head(xs).i + IntSum(Tail(xs))
RECURSIVE IntProduct(_)
IntProduct(xs) == IF xs = <<>> THEN 1 ELSE Head(xs).i * IntProduct(Tail(xs))

\* Twice the value of a finite number whose fraction is a whole or a half.
Twice(n) == IF n.kind = "Int" THEN 2 * n.i ELSE n.f.sgn * ((2 * n.f.num) \div n.f.den)
RECURSIVE TwiceSum(_)
TwiceSum(xs) == IF xs = <<>> THEN 0 ELSE Twice(Head(xs)) + TwiceSum(Tail(xs))

\* The quotient of a by b # 0 rounded toward zero, by its defining bounds.
TruncQuot(a, b) ==
    CHOOSE q \in (-Abs(a))..Abs(a) :
        /\ Abs(q) * Abs(b) <= Abs(a)
        /\ Abs(a) < (Abs(q) + 1) * Abs(b)
        /\ (q # 0 => Sign(q) = Sign(a) * Sign(b))
RECURSIVE TruncFold(_, _)
TruncFold(a, xs) ==
    IF xs = <<>> THEN IntNumber(a)
    ELSE IF Head(xs).i = 0 THEN Panic
    ELSE TruncFold(TruncQuot(a, Head(xs).i), Tail(xs))

\* The kind of the accumulator a call starts from.
InitialKind ==
    CASE last.op \in {"add", "mul"} -> "Int"
      [] last.op = "sub" -> IF number.tag = "Some" THEN number.x.kind ELSE "Int"
      [] last.op = "div" -> number.x.kind

Called == last.op \in {"add", "sub", "mul", "div"}

\* C17: on a list of Int numbers add returns the Int sum and mul the Int
\* product of the list; on the empty list add returns Int 0 and mul Int 1.
C17_AddMulOfInts ==
    /\ (last.op = "add" /\ AllInt(numbers)) => result = IntNumber(IntSum(numbers))
    /\ (last.op = "mul" /\ AllInt(numbers)) => result = IntNumber(IntProduct(numbers))
    /\ (last.op = "add" /\ numbers = <<>>) => result = IntNumber(0)
    /\ (last.op = "mul" /\ numbers = <<>>) => result = IntNumber(1)

\* add of (7 13) has returned Int 20.
C17_Witness ==
    /\ last.op = "add"
    /\ numbers = <<IntNumber(7), IntNumber(13)>>
    /\ result = IntNumber(20)

\* C18: in add, sub, mul and div every accumulator of the fold is an Int
\* exactly when the initial accumulator and all operands folded in so far
\* are Int, and the result has the kind of the final accumulator.
C18_FloatIsContagious ==
    Called =>
        /\ \A i \in 1..Len(accs) :
              accs[i] # Panic =>
                 (accs[i].kind = "Int"
                     <=> (InitialKind = "Int" /\ AllInt(SubSeq(numbers, 1, i - 1))))
        /\ result # Panic =>
              /\ Len(accs) = Len(numbers) + 1
              /\ result.kind = Last(accs).kind
              /\ (result.kind = "Int" <=> (InitialKind = "Int" /\ AllInt(numbers)))

\* A call whose first operand was a Float and whose second was an Int has
\* returned a Float.
C18_Witness ==
    /\ Called
    /\ Len(numbers) = 2
    /\ InitialKind = "Int"
    /\ numbers[1].kind = "Float" /\ numbers[2].kind = "Int"
    /\ accs[1].kind = "Int" /\ accs[2].kind = "Float"
    /\ result.kind = "Float"

\* C19: sub with no further numbers returns the negation of number, an
\* absent number counting as Int 0; otherwise it returns number less every
\* element of numbers.
C19_SubNegatesOrSubtracts ==
    last.op = "sub" =>
        LET n0 == IF number.tag = "Some" THEN number.x ELSE IntNumber(0)
        IN  IF numbers = <<>>
            THEN /\ result.kind = n0.kind
                 /\ Twice(result) = -Twice(n0)
                 /\ (n0.kind = "Float" => result.f.sgn = -n0.f.sgn)
            ELSE Twice(result) = Twice(n0) - TwiceSum(numbers)

\* sub of 7 alone has returned Int -7.
C19_Witness ==
    /\ last.op = "sub"
    /\ number = SomeNumber(IntNumber(7))
    /\ numbers = <<>>
    /\ result = IntNumber(-7)

\* C20: div with no divisors returns number itself, value and kind; with
\* an Int number and Int divisors it returns the Int reached by dividing by
\* each divisor in turn, rounding toward zero at each step.
C20_DivFoldsTruncating ==
    last.op = "div" =>
        /\ numbers = <<>> => result = number.x
        /\ (number.x.kind = "Int" /\ AllInt(numbers))
              => result = TruncFold(number.x.i, numbers)

\* div of 12 by 5 and 2 has returned Int 1.
C20_Witness ==
    /\ last.op = "div"
    /\ number = SomeNumber(IntNumber(12))
    /\ numbers = <<IntNumber(5), IntNumber(2)>>
    /\ result = IntNumber(1)

\* ------------------------------------------------------------------------
\* Properties of the symbol's function cell
\* ------------------------------------------------------------------------

\* C21: over set_func and get_func calls, every get_func returned no
\* function if no set_func came before it and otherwise the function given
\* to the latest set_func before it, a get_func now would do the same, and
\* the function object seen through a returned function is still what it
\* was when it was returned.
C21_FuncCellIsRegister ==
    /\ \A i \in 1..Len(got) :
          /\ got[i].ret = got[i].want
          /\ got[i].ret.tag = "Some"
                => <<Function_val(fn_heap, got[i].ret.f)>> = got[i].seen
    /\ InnerSymbol_get_func(sym) = last_set

\* A get_func returned a LispFn with op code 1, a set_func of a LispFn with
\* op code 7 followed, and the next get_func returned that one, while the
\* first result still shows op code 1.
C21_Witness ==
    /\ Len(got) = 2
    /\ got[1].ret.tag = "Some" /\ got[2].ret.tag = "Some"
    /\ got[1].ret.f # got[2].ret.f
    /\ got[1].seen = <<[kind |-> "LispFn", op_code |-> 1]>>
    /\ Function_val(fn_heap, got[1].ret.f).op_code = 1
    /\ Function_val(fn_heap, got[2].ret.f) = [kind |-> "LispFn", op_code |-> 7]

====
